---- MODULE Spec2Model ----
(***************************************************************************)
(* The verified registry actor (actors/builtin/verifreg): the actor state  *)
(* RootKey / Verifiers / VerifiedClients and its six exported methods,     *)
(* each translated from verified_registry_actor.go.  One action is one     *)
(* message delivered to the actor: caller validation, parameter checks,    *)
(* the state transaction and its commit or abort.                          *)
(***************************************************************************)
EXTENDS Integers, FiniteSets, Sequences, TLC

\* ---------------------------------------------------------------- bounds

\* Largest DataCap / deal size drawn as a parameter or held by an entry.
MaxCap == 4

\* Threads that share one block store, and calls they make on it in all.
NumThreads == 2
MaxCalls == 4

\* ------------------------------------------------------------- constants

\* Governance parameter (1 << 20 bytes in the deployed policy), scaled down.
MinVerifiedDealSize == 2

SystemActorAddr == "f00"
StorageMarketActorAddr == "f05"

\* Id-form addresses of the actors that exist.
IDAddrs ==
  {SystemActorAddr, StorageMarketActorAddr, "f0100", "f0101", "f0102", "f0103"}

\* The system actor sends only the constructor message; every other actor
\* can send any message.
Senders == {StorageMarketActorAddr, "f0100", "f0101", "f0102"}

\* A robust (public-key) address the init actor maps to an id, and one it
\* does not know.
RobustKnown == "f1known"
RobustUnknown == "f1unknown"

\* Addresses a message names: two accounts by id, a third by its robust
\* address, and an unresolvable one.
Addrs == {"f0100", "f0101", RobustKnown, RobustUnknown}

\* Root keys the constructor message names: an account's id address, or an
\* address that does not resolve.
RootKeyParams == {"f0100", RobustUnknown}

\* Parameter values for Allowance / DealSize: every value at or above the
\* minimum up to MaxCap, and one below it (the code only ever compares a
\* smaller value with MinVerifiedDealSize).
Amounts == (MinVerifiedDealSize - 1) .. MaxCap

\* A second population for the specification with three accounts that can
\* hold entries: fewer senders and parameter values, no unresolvable address.
SendersWide == {StorageMarketActorAddr, "f0100", "f0101"}
AddrsWide == {"f0101", "f0102", "f0103"}
AmountsWide == {MinVerifiedDealSize, MaxCap}

\* addr.Undef: the root key of a state that has not been constructed.
Undef == "undef"

\* Exit codes.
Ok == "Ok"
ErrIllegalArgument == "ErrIllegalArgument"
ErrIllegalState == "ErrIllegalState"
ErrNotFound == "ErrNotFound"
SysErrForbidden == "SysErrForbidden"

\* ------------------------------------------------------- collaborators

\* rt.ResolveAddress: an id address resolves to itself, a known robust
\* address to its id, anything else does not resolve.
ResolveAddress(a) ==
  IF a \in IDAddrs THEN [ok |-> TRUE, id |-> a]
  ELSE IF a = RobustKnown THEN [ok |-> TRUE, id |-> "f0102"]
  ELSE [ok |-> FALSE, id |-> Undef]

\* builtin.ResolveToIDAddr: err # nil iff the address does not resolve.
ResolveToIDAddr(a) == ResolveAddress(a)

\* adt.Map over AddrKey(id) -> DataCap.
EmptyMap == [k \in {} |-> 0]
Has(m, k) == k \in DOMAIN m
Put(m, k, v) == [x \in (DOMAIN m) \cup {k} |-> IF x = k THEN v ELSE m[x]]
Delete(m, k) == [x \in (DOMAIN m) \ {k} |-> m[x]]

\* The outcome of one invocation: the exit code and the state the runtime
\* holds afterwards.  rt.Abortf unwinds the call, so the state struct the
\* transaction was working on is dropped and the actor keeps `st`.
Abort(st, code) == [code |-> code, st |-> st]
Commit(st) == [code |-> Ok, st |-> st]

\* ------------------------------------------------------------ methods
\* Each method is the function (state, caller, params) -> outcome its Go
\* body computes, the checks in the order the code makes them.  The closure
\* handed to rt.State().Transaction is a definition of its own.

\* Constructor: the system actor creates the state with the resolved root
\* key and two empty maps (builtin.RequireParam aborts ErrIllegalArgument).
Constructor(st, caller, rootKey) ==
  IF caller # SystemActorAddr THEN Abort(st, SysErrForbidden)
  ELSE LET r == ResolveAddress(rootKey) IN
    IF ~r.ok THEN Abort(st, ErrIllegalArgument)
    ELSE Commit([RootKey |-> r.id, Verifiers |-> EmptyMap,
                 VerifiedClients |-> EmptyMap])

\* Mutant: the "verified client cannot become a verifier" check is missing.
AddVerifierTransaction_NoClientCheck(st, verifier, allowance) ==
  Commit([st EXCEPT !.Verifiers = Put(st.Verifiers, verifier, allowance)])

\* Mutant: the allowance is added to the cap the verifier already has.
AddVerifierTransaction_Additive(st, verifier, allowance) ==
  IF Has(st.VerifiedClients, verifier) THEN Abort(st, ErrIllegalArgument)
  ELSE Commit([st EXCEPT !.Verifiers =
                 Put(st.Verifiers, verifier,
                     IF Has(st.Verifiers, verifier)
                     THEN st.Verifiers[verifier] + allowance ELSE allowance)])

AddVerifierTransaction(st, verifier, allowance) ==
  LET verifiers == st.Verifiers
      verifiedClients == st.VerifiedClients IN
  \* a verified client cannot become a verifier
  IF Has(verifiedClients, verifier) THEN Abort(st, ErrIllegalArgument)
  ELSE Commit([st EXCEPT !.Verifiers = Put(verifiers, verifier, allowance)])

AddVerifier(st, caller, address, allowance) ==
  IF allowance < MinVerifiedDealSize THEN Abort(st, ErrIllegalArgument)
  ELSE LET r == ResolveToIDAddr(address)
           verifier == r.id IN
    IF ~r.ok THEN Abort(st, ErrIllegalState)
    ELSE IF caller # st.RootKey THEN Abort(st, SysErrForbidden)
    ELSE IF verifier = st.RootKey THEN Abort(st, ErrIllegalArgument)
    ELSE AddVerifierTransaction(st, verifier, allowance)

\* Mutant: deleting an absent key is not an error.
RemoveVerifierTransaction_IgnoreAbsent(st, verifier) ==
  Commit([st EXCEPT !.Verifiers = Delete(st.Verifiers, verifier)])

RemoveVerifierTransaction(st, verifier) ==
  LET verifiers == st.Verifiers IN
  \* verifiers.Delete fails on an absent key
  IF ~Has(verifiers, verifier) THEN Abort(st, ErrIllegalState)
  ELSE Commit([st EXCEPT !.Verifiers = Delete(verifiers, verifier)])

\* Mutant: the caller is not validated against the root key.
RemoveVerifier_AnyCaller(st, caller, verifierAddr) ==
  LET r == ResolveToIDAddr(verifierAddr) IN
    IF ~r.ok THEN Abort(st, ErrIllegalState)
    ELSE RemoveVerifierTransaction(st, r.id)

RemoveVerifier(st, caller, verifierAddr) ==
  LET r == ResolveToIDAddr(verifierAddr)
      verifier == r.id IN
    IF ~r.ok THEN Abort(st, ErrIllegalState)
    ELSE IF caller # st.RootKey THEN Abort(st, SysErrForbidden)
    ELSE RemoveVerifierTransaction(st, verifier)

\* Mutant: the caller's entry is rewritten with the cap it already had.
AddVerifiedClientTransaction_NoDebit(st, verifier, client, allowance) ==
  LET verifiers == st.Verifiers
      verifiedClients == st.VerifiedClients IN
  IF ~Has(verifiers, verifier) THEN Abort(st, ErrNotFound)
  ELSE IF Has(verifiers, client) THEN Abort(st, ErrIllegalArgument)
  ELSE IF verifiers[verifier] < allowance THEN Abort(st, ErrIllegalArgument)
  ELSE IF Has(verifiedClients, client) THEN Abort(st, ErrIllegalArgument)
  ELSE Commit([st EXCEPT !.Verifiers = Put(verifiers, verifier, verifiers[verifier]),
                         !.VerifiedClients = Put(verifiedClients, client, allowance)])

\* Mutant: the debited verifiers map is flushed into the state before the
\* duplicate-client check, and that check leaves it there.
AddVerifiedClientTransaction_DebitKept(st, verifier, client, allowance) ==
  LET verifiers == st.Verifiers
      verifiedClients == st.VerifiedClients IN
  IF ~Has(verifiers, verifier) THEN Abort(st, ErrNotFound)
  ELSE IF Has(verifiers, client) THEN Abort(st, ErrIllegalArgument)
  ELSE IF verifiers[verifier] < allowance THEN Abort(st, ErrIllegalArgument)
  ELSE LET st2 == [st EXCEPT !.Verifiers =
                     Put(verifiers, verifier, verifiers[verifier] - allowance)] IN
    IF Has(verifiedClients, client) THEN Abort(st2, ErrIllegalArgument)
    ELSE Commit([st2 EXCEPT !.VerifiedClients = Put(verifiedClients, client, allowance)])

\* Mutant: the client-is-a-verifier check runs before the caller lookup.
AddVerifiedClientTransaction_ClientFirst(st, verifier, client, allowance) ==
  LET verifiers == st.Verifiers
      verifiedClients == st.VerifiedClients IN
  IF Has(verifiers, client) THEN Abort(st, ErrIllegalArgument)
  ELSE IF ~Has(verifiers, verifier) THEN Abort(st, ErrNotFound)
  ELSE IF verifiers[verifier] < allowance THEN Abort(st, ErrIllegalArgument)
  ELSE IF Has(verifiedClients, client) THEN Abort(st, ErrIllegalArgument)
  ELSE Commit([st EXCEPT !.Verifiers = Put(verifiers, verifier, verifiers[verifier] - allowance),
                         !.VerifiedClients = Put(verifiedClients, client, allowance)])

\* Mutant: a verifier left with less than the minimum is dropped.
AddVerifiedClientTransaction_DropSpent(st, verifier, client, allowance) ==
  LET verifiers == st.Verifiers
      verifiedClients == st.VerifiedClients IN
  IF ~Has(verifiers, verifier) THEN Abort(st, ErrNotFound)
  ELSE IF Has(verifiers, client) THEN Abort(st, ErrIllegalArgument)
  ELSE IF verifiers[verifier] < allowance THEN Abort(st, ErrIllegalArgument)
  ELSE IF Has(verifiedClients, client) THEN Abort(st, ErrIllegalArgument)
  ELSE LET newVerifierCap == verifiers[verifier] - allowance IN
    Commit([st EXCEPT !.Verifiers =
                        IF newVerifierCap < MinVerifiedDealSize
                        THEN Delete(verifiers, verifier)
                        ELSE Put(verifiers, verifier, newVerifierCap),
                      !.VerifiedClients = Put(verifiedClients, client, allowance)])

\* Mutant: the allowance is not compared with the verifier's cap.
AddVerifiedClientTransaction_NoCapCheck(st, verifier, client, allowance) ==
  LET verifiers == st.Verifiers
      verifiedClients == st.VerifiedClients IN
  IF ~Has(verifiers, verifier) THEN Abort(st, ErrNotFound)
  ELSE IF Has(verifiers, client) THEN Abort(st, ErrIllegalArgument)
  ELSE IF Has(verifiedClients, client) THEN Abort(st, ErrIllegalArgument)
  ELSE Commit([st EXCEPT !.Verifiers = Put(verifiers, verifier, verifiers[verifier] - allowance),
                         !.VerifiedClients = Put(verifiedClients, client, allowance)])

AddVerifiedClientTransaction(st, verifier, client, allowance) ==
  \* the two map handles loaded from the state's roots
  LET verifiers == st.Verifiers
      verifiedClients == st.VerifiedClients IN
  \* validate the caller is one of the verifiers
  IF ~Has(verifiers, verifier) THEN Abort(st, ErrNotFound)
  \* validate the client to be added isn't a verifier
  ELSE IF Has(verifiers, client) THEN Abort(st, ErrIllegalArgument)
  ELSE LET verifierCap == verifiers[verifier] IN
    IF verifierCap < allowance THEN Abort(st, ErrIllegalArgument)
    ELSE LET newVerifierCap == verifierCap - allowance
             verifiers2 == Put(verifiers, verifier, newVerifierCap) IN
      \* the verifiers handle is already updated when this check runs; the
      \* roots in st are assigned only at the end of the closure
      IF Has(verifiedClients, client) THEN Abort(st, ErrIllegalArgument)
      ELSE LET verifiedClients2 == Put(verifiedClients, client, allowance) IN
        Commit([st EXCEPT !.Verifiers = verifiers2,
                          !.VerifiedClients = verifiedClients2])

AddVerifiedClient(st, caller, address, allowance) ==
  \* ValidateImmediateCallerAcceptAny
  IF allowance < MinVerifiedDealSize THEN Abort(st, ErrIllegalArgument)
  ELSE LET r == ResolveToIDAddr(address)
           client == r.id IN
    IF ~r.ok THEN Abort(st, ErrIllegalState)
    ELSE IF st.RootKey = client THEN Abort(st, ErrIllegalArgument)
    ELSE AddVerifiedClientTransaction(st, caller, client, allowance)

\* Mutant: the entry is deleted only when nothing is left of the cap.
UseBytesTransaction_DeleteAtZero(st, client, dealSize) ==
  LET verifiedClients == st.VerifiedClients IN
  IF ~Has(verifiedClients, client) THEN Abort(st, ErrNotFound)
  ELSE LET vcCap == verifiedClients[client] IN
    IF dealSize > vcCap THEN Abort(st, ErrIllegalArgument)
    ELSE LET newVcCap == vcCap - dealSize IN
      IF newVcCap <= 0
      THEN Commit([st EXCEPT !.VerifiedClients = Delete(verifiedClients, client)])
      ELSE Commit([st EXCEPT !.VerifiedClients = Put(verifiedClients, client, newVcCap)])

\* Mutant: a residual equal to the minimum is deleted too.
UseBytesTransaction_DeleteAtMin(st, client, dealSize) ==
  LET verifiedClients == st.VerifiedClients IN
  IF ~Has(verifiedClients, client) THEN Abort(st, ErrNotFound)
  ELSE LET vcCap == verifiedClients[client] IN
    IF dealSize > vcCap THEN Abort(st, ErrIllegalArgument)
    ELSE LET newVcCap == vcCap - dealSize IN
      IF newVcCap <= MinVerifiedDealSize
      THEN Commit([st EXCEPT !.VerifiedClients = Delete(verifiedClients, client)])
      ELSE Commit([st EXCEPT !.VerifiedClients = Put(verifiedClients, client, newVcCap)])

\* Mutant: the entry is kept whatever is left of the cap.
UseBytesTransaction_NeverDelete(st, client, dealSize) ==
  LET verifiedClients == st.VerifiedClients IN
  IF ~Has(verifiedClients, client) THEN Abort(st, ErrNotFound)
  ELSE IF dealSize > verifiedClients[client] THEN Abort(st, ErrIllegalArgument)
  ELSE Commit([st EXCEPT !.VerifiedClients =
                 Put(verifiedClients, client, verifiedClients[client] - dealSize)])

UseBytesTransaction(st, client, dealSize) ==
  LET verifiedClients == st.VerifiedClients IN
  IF ~Has(verifiedClients, client) THEN Abort(st, ErrNotFound)
  ELSE LET vcCap == verifiedClients[client] IN
    \* the assertion vcCap >= 0 halts the call
    IF vcCap < 0 THEN Abort(st, ErrIllegalState)
    ELSE IF dealSize > vcCap THEN Abort(st, ErrIllegalArgument)
    ELSE LET newVcCap == vcCap - dealSize IN
      IF newVcCap < MinVerifiedDealSize
      THEN Commit([st EXCEPT !.VerifiedClients = Delete(verifiedClients, client)])
      ELSE Commit([st EXCEPT !.VerifiedClients = Put(verifiedClients, client, newVcCap)])

UseBytes(st, caller, address, dealSize) ==
  IF caller # StorageMarketActorAddr THEN Abort(st, SysErrForbidden)
  ELSE LET r == ResolveToIDAddr(address)
           client == r.id IN
    IF ~r.ok THEN Abort(st, ErrIllegalState)
    ELSE IF dealSize < MinVerifiedDealSize THEN Abort(st, ErrIllegalArgument)
    ELSE UseBytesTransaction(st, client, dealSize)

\* Mutant: the restored size replaces the current cap instead of adding to it.
RestoreBytesTransaction_Overwrite(st, client, dealSize) ==
  IF Has(st.Verifiers, client) THEN Abort(st, ErrIllegalArgument)
  ELSE Commit([st EXCEPT !.VerifiedClients = Put(st.VerifiedClients, client, dealSize)])

\* Mutant: the new client map root is stored in st.Verifiers.
RestoreBytesTransaction_WrongRoot(st, client, dealSize) ==
  IF Has(st.Verifiers, client) THEN Abort(st, ErrIllegalArgument)
  ELSE LET vcCap == IF Has(st.VerifiedClients, client)
                    THEN st.VerifiedClients[client] ELSE 0 IN
    Commit([st EXCEPT !.Verifiers = Put(st.VerifiedClients, client, vcCap + dealSize)])

\* Mutant: a client that has no entry is not re-created.
RestoreBytesTransaction_RequireEntry(st, client, dealSize) ==
  IF Has(st.Verifiers, client) THEN Abort(st, ErrIllegalArgument)
  ELSE IF ~Has(st.VerifiedClients, client) THEN Abort(st, ErrNotFound)
  ELSE Commit([st EXCEPT !.VerifiedClients =
                 Put(st.VerifiedClients, client, st.VerifiedClients[client] + dealSize)])

RestoreBytesTransaction(st, client, dealSize) ==
  LET verifiedClients == st.VerifiedClients
      verifiers == st.Verifiers IN
  \* validate we are not attempting to do this for a verifier
  IF Has(verifiers, client) THEN Abort(st, ErrIllegalArgument)
  ELSE LET vcCap == IF Has(verifiedClients, client)
                    THEN verifiedClients[client] ELSE 0
           newVcCap == vcCap + dealSize IN
    Commit([st EXCEPT !.VerifiedClients = Put(verifiedClients, client, newVcCap)])

\* Mutant: the root key is not refused as the client to restore.
RestoreBytes_NoRootCheck(st, caller, address, dealSize) ==
  IF caller # StorageMarketActorAddr THEN Abort(st, SysErrForbidden)
  ELSE IF dealSize < MinVerifiedDealSize THEN Abort(st, ErrIllegalArgument)
  ELSE LET r == ResolveToIDAddr(address) IN
    IF ~r.ok THEN Abort(st, ErrIllegalState)
    ELSE RestoreBytesTransaction(st, r.id, dealSize)

RestoreBytes(st, caller, address, dealSize) ==
  IF caller # StorageMarketActorAddr THEN Abort(st, SysErrForbidden)
  ELSE IF dealSize < MinVerifiedDealSize THEN Abort(st, ErrIllegalArgument)
  ELSE LET r == ResolveToIDAddr(address)
           client == r.id IN
    IF ~r.ok THEN Abort(st, ErrIllegalState)
    ELSE IF st.RootKey = client THEN Abort(st, ErrIllegalArgument)
    ELSE RestoreBytesTransaction(st, client, dealSize)

\* ------------------------------------------------------------------ state

VARIABLES
  created,          \* rt.State().Create has run
  RootKey,          \* State.RootKey
  Verifiers,        \* State.Verifiers, as the map it is the root of
  VerifiedClients,  \* State.VerifiedClients, likewise
  last,             \* the latest message and its exit code
  hist,             \* history of the calls, kept when hist.on (see HistNext)
  data,             \* BlockStoreInMemory.data: the blocks stored, by cid
  mu,               \* SyncBlockStore.mu: the thread holding it, or NoThread
  ms,               \* MetricsBlockStore: Writes, WriteBytes, Reads, ReadBytes
  thr,              \* per thread: where it is in its call, and its locals
  acct              \* calls that have returned, and the bytes they moved

actorVars == <<created, RootKey, Verifiers, VerifiedClients, last, hist>>
storeVars == <<data, mu, ms, thr, acct>>
vars == <<created, RootKey, Verifiers, VerifiedClients, last, hist,
          data, mu, ms, thr, acct>>

\* ------------------------------------------------------------ block stores
\* support/ipld/store.go.  A thread is idle or inside one Get or Put; each
\* action is one step of that call: a load or a store of a counter field, a
\* lock or unlock of the mutex, or the call of the wrapped store.

Threads == 1 .. NumThreads
NoThread == 0

\* Blocks, told apart by their raw data; Cid is a function of the data.
Blocks == {"a", "bb"}
NoBlock == ""
RawLen(b) == IF b = "a" THEN 1 ELSE IF b = "bb" THEN 2 ELSE 0
Cid(b) == <<"cid", b>>

Idle == [pc |-> "idle", blk |-> NoBlock, reg |-> 0, err |-> FALSE]

InitStore(T) ==
  /\ data = {}
  /\ mu = NoThread
  /\ ms = [Writes |-> 0, WriteBytes |-> 0, Reads |-> 0, ReadBytes |-> 0]
  /\ thr = [t \in T |-> Idle]
  /\ acct = [calls |-> 0, gets |-> 0, getErrs |-> 0, readBytes |-> 0,
             puts |-> 0, putErrs |-> 0, writeBytes |-> 0]

\* BlockStoreInMemory.Get: the block stored under the cid, if any.
BsGet(c) == {b \in data : Cid(b) = c}

\* The thread goes to pc with its locals updated.
Goto(t, pc, blk, reg, err) ==
  thr' = [thr EXCEPT ![t] = [@ EXCEPT !.pc = pc, !.blk = blk,
                                      !.reg = reg, !.err = err]]

\* The call of thread t returns.
Return(t) ==
  thr' = [thr EXCEPT ![t] = Idle]

\* Thread t, idle, enters a call on block b (or its cid) at pc.
Enter(t, pc, b, reg) ==
  /\ thr[t].pc = "idle" /\ acct.calls < MaxCalls
  /\ thr' = [thr EXCEPT ![t] = [pc |-> pc, blk |-> b, reg |-> reg, err |-> FALSE]]
  /\ acct' = [acct EXCEPT !.calls = @ + 1]

\* --- MetricsBlockStore.Get(c): ms.Reads++ is a load and a store.
MsGetLoadReads(t) ==
  /\ \E b \in Blocks : Enter(t, "get_inc", b, ms.Reads)
  /\ UNCHANGED <<actorVars, data, mu, ms>>

MsGetStoreReads(t) ==
  /\ thr[t].pc = "get_inc"
  /\ ms' = [ms EXCEPT !.Reads = thr[t].reg + 1]
  /\ Goto(t, "get_bs", thr[t].blk, 0, FALSE)
  /\ UNCHANGED <<actorVars, data, mu, acct>>

\* blk, err := ms.bs.Get(ctx, c); if err != nil { return blk, err }
MsGetUnderlying(t) ==
  /\ thr[t].pc = "get_bs"
  /\ IF BsGet(Cid(thr[t].blk)) = {}
     THEN /\ Return(t)
          /\ acct' = [acct EXCEPT !.gets = @ + 1, !.getErrs = @ + 1]
     ELSE /\ Goto(t, "get_load_bytes", thr[t].blk, 0, FALSE)
          /\ UNCHANGED acct
  /\ UNCHANGED <<actorVars, data, mu, ms>>

\* ms.ReadBytes += uint64(len(blk.RawData())): a load ...
MsGetLoadBytes(t) ==
  /\ thr[t].pc = "get_load_bytes"
  /\ Goto(t, "get_add_bytes", thr[t].blk, ms.ReadBytes, FALSE)
  /\ UNCHANGED <<actorVars, data, mu, ms, acct>>

\* ... and a store, then return blk, nil.
MsGetStoreBytes(t) ==
  /\ thr[t].pc = "get_add_bytes"
  /\ ms' = [ms EXCEPT !.ReadBytes = thr[t].reg + RawLen(thr[t].blk)]
  /\ Return(t)
  /\ acct' = [acct EXCEPT !.gets = @ + 1, !.readBytes = @ + RawLen(thr[t].blk)]
  /\ UNCHANGED <<actorVars, data, mu>>

\* --- MetricsBlockStore.Put(b): ms.Writes++, ms.WriteBytes += len, bs.Put.
MsPutLoadWrites(t) ==
  /\ \E b \in Blocks : Enter(t, "put_inc", b, ms.Writes)
  /\ UNCHANGED <<actorVars, data, mu, ms>>

MsPutStoreWrites(t) ==
  /\ thr[t].pc = "put_inc"
  /\ ms' = [ms EXCEPT !.Writes = thr[t].reg + 1]
  /\ Goto(t, "put_load_bytes", thr[t].blk, 0, FALSE)
  /\ UNCHANGED <<actorVars, data, mu, acct>>

MsPutLoadBytes(t) ==
  /\ thr[t].pc = "put_load_bytes"
  /\ Goto(t, "put_add_bytes", thr[t].blk, ms.WriteBytes, FALSE)
  /\ UNCHANGED <<actorVars, data, mu, ms, acct>>

\* Variant: counts the blocks written, not their bytes.
MsPutStoreBytes_CountOne(t) ==
  /\ thr[t].pc = "put_add_bytes"
  /\ ms' = [ms EXCEPT !.WriteBytes = thr[t].reg + 1]
  /\ Goto(t, "put_bs", thr[t].blk, 0, FALSE)
  /\ UNCHANGED <<actorVars, data, mu, acct>>

MsPutStoreBytes(t) ==
  /\ thr[t].pc = "put_add_bytes"
  /\ ms' = [ms EXCEPT !.WriteBytes = thr[t].reg + RawLen(thr[t].blk)]
  /\ Goto(t, "put_bs", thr[t].blk, 0, FALSE)
  /\ UNCHANGED <<actorVars, data, mu, acct>>

\* return ms.bs.Put(ctx, b): the wrapped store is any IpldBlockstore, so
\* the Put stores the block or fails.
MsPutUnderlying(t) ==
  /\ thr[t].pc = "put_bs"
  /\ \E failed \in BOOLEAN :
       /\ data' = IF failed THEN data ELSE data \cup {thr[t].blk}
       /\ acct' = [acct EXCEPT !.puts = @ + 1,
                                !.putErrs = IF failed THEN @ + 1 ELSE @,
                                !.writeBytes = @ + RawLen(thr[t].blk)]
  /\ Return(t)
  /\ UNCHANGED <<actorVars, mu, ms>>

\* --- SyncBlockStore.Get / Put: Lock, defer Unlock, the wrapped call.
\* A thread enters Get or Put and blocks in ss.mu.Lock().
SsCall(t) ==
  /\ \E b \in Blocks, op \in {"sync_get", "sync_put"} : Enter(t, op, b, 0)
  /\ UNCHANGED <<actorVars, data, mu, ms>>

\* ss.mu.Lock() returns once the mutex is free.
SsLock(t) ==
  /\ thr[t].pc \in {"sync_get", "sync_put"}
  /\ mu = NoThread
  /\ mu' = t
  /\ Goto(t, IF thr[t].pc = "sync_get" THEN "sync_get_bs" ELSE "sync_put_bs",
          thr[t].blk, 0, FALSE)
  /\ UNCHANGED <<actorVars, data, ms, acct>>

\* return ss.bs.Get(ctx, c) / ss.bs.Put(ctx, b): the wrapped call, which
\* can fail; the deferred Unlock is still to run.
SsUnderlying(t) ==
  /\ thr[t].pc \in {"sync_get_bs", "sync_put_bs"}
  /\ IF thr[t].pc = "sync_get_bs"
     THEN /\ Goto(t, "sync_get_unlock", thr[t].blk, 0,
                  BsGet(Cid(thr[t].blk)) = {})
          /\ UNCHANGED data
     ELSE \E failed \in BOOLEAN :
            /\ data' = IF failed THEN data ELSE data \cup {thr[t].blk}
            /\ Goto(t, "sync_put_unlock", thr[t].blk, 0, failed)
  /\ UNCHANGED <<actorVars, mu, ms, acct>>

\* Variant: Unlock at the end of the body, skipped by an error return.
SsUnlock_OnSuccessOnly(t) ==
  /\ thr[t].pc \in {"sync_get_unlock", "sync_put_unlock"}
  /\ mu' = IF thr[t].err THEN mu ELSE NoThread
  /\ Return(t)
  /\ acct' = IF thr[t].pc = "sync_get_unlock"
             THEN [acct EXCEPT !.gets = @ + 1,
                               !.getErrs = IF thr[t].err THEN @ + 1 ELSE @]
             ELSE [acct EXCEPT !.puts = @ + 1,
                               !.putErrs = IF thr[t].err THEN @ + 1 ELSE @]
  /\ UNCHANGED <<actorVars, data, ms>>

\* defer ss.mu.Unlock(), then the call returns.
SsUnlock(t) ==
  /\ thr[t].pc \in {"sync_get_unlock", "sync_put_unlock"}
  /\ mu' = NoThread
  /\ Return(t)
  /\ acct' = IF thr[t].pc = "sync_get_unlock"
             THEN [acct EXCEPT !.gets = @ + 1,
                               !.getErrs = IF thr[t].err THEN @ + 1 ELSE @]
             ELSE [acct EXCEPT !.puts = @ + 1,
                               !.putErrs = IF thr[t].err THEN @ + 1 ELSE @]
  /\ UNCHANGED <<actorVars, data, ms>>


State == [RootKey |-> RootKey, Verifiers |-> Verifiers,
          VerifiedClients |-> VerifiedClients]

NoCall == [method |-> "none", caller |-> Undef, address |-> Undef,
           amount |-> 0, code |-> Ok]

\* The history of a run: the clients UseBytes has deleted so far, for every
\* verifier the allowance of its latest successful AddVerifier (grant) and
\* the sum of the allowances of the clients it has created since (spent),
\* the cap a verifier held before the latest message when that is a
\* successful AddVerifier for it (capBefore, else NoCap), and the cap a
\* client held before the latest message when that is a successful UseBytes,
\* kept while the next message is the RestoreBytes of the same client and
\* size by the storage market (origCap, else NoCap).
NoCap == 0 - 1

NoHist(on) == [on |-> on, deleted |-> {}, grant |-> EmptyMap,
               spent |-> EmptyMap, capBefore |-> NoCap, origCap |-> NoCap]

HistNext(method, caller, address, amount, out) ==
  IF ~hist.on THEN hist
  ELSE
    LET id == ResolveAddress(address).id
        ok == out.code = Ok IN
    [on |-> TRUE,
     deleted |->
       IF method = "UseBytes" /\ ok /\ ~Has(out.st.VerifiedClients, id)
       THEN hist.deleted \cup {id} ELSE hist.deleted,
     grant |->
       IF method = "AddVerifier" /\ ok THEN Put(hist.grant, id, amount)
       ELSE IF method = "RemoveVerifier" /\ ok THEN Delete(hist.grant, id)
       ELSE hist.grant,
     spent |->
       IF method = "AddVerifier" /\ ok THEN Put(hist.spent, id, 0)
       ELSE IF method = "RemoveVerifier" /\ ok THEN Delete(hist.spent, id)
       ELSE IF method = "AddVerifiedClient" /\ ok /\ Has(hist.spent, caller)
       THEN Put(hist.spent, caller, hist.spent[caller] + amount)
       ELSE hist.spent,
     capBefore |->
       IF ok /\ method = "AddVerifier" /\ Has(Verifiers, id)
       THEN Verifiers[id] ELSE NoCap,
     origCap |->
       IF ok /\ method = "UseBytes" THEN VerifiedClients[id]
       ELSE IF /\ ok /\ method = "RestoreBytes"
               /\ last.method = "UseBytes" /\ last.code = Ok
               /\ ResolveAddress(last.address).id = id
               /\ last.amount = amount
       THEN hist.origCap ELSE NoCap]

InitActor ==
  /\ created = FALSE
  /\ RootKey = Undef
  /\ Verifiers = EmptyMap
  /\ VerifiedClients = EmptyMap
  /\ last = NoCall

Init ==
  /\ InitActor
  /\ hist = NoHist(FALSE)
  /\ InitStore({})

\* Every entry stays within the modelled range of DataCap values.
InRange(m) == \A k \in DOMAIN m : m[k] <= MaxCap

\* The runtime delivers one message and installs its outcome.
Deliver(method, caller, address, amount, out) ==
  /\ InRange(out.st.VerifiedClients)
  /\ RootKey' = out.st.RootKey
  /\ Verifiers' = out.st.Verifiers
  /\ VerifiedClients' = out.st.VerifiedClients
  /\ last' = [method |-> method, caller |-> caller, address |-> address,
              amount |-> amount, code |-> out.code]
  /\ hist' = HistNext(method, caller, address, amount, out)
  /\ UNCHANGED storeVars

CallConstructor ==
  /\ ~created
  /\ \E caller \in IDAddrs, rootKey \in RootKeyParams :
       LET out == Constructor(State, caller, rootKey) IN
       /\ Deliver("Constructor", caller, rootKey, 0, out)
       /\ created' = (out.code = Ok)

\* The other five methods, for messages whose sender is drawn from S, whose
\* address parameter from A and whose allowance or deal size from N.
CallAddVerifier(S, A, N) ==
  /\ created
  /\ \E caller \in S, address \in A, allowance \in N :
       Deliver("AddVerifier", caller, address, allowance,
               AddVerifier(State, caller, address, allowance))
  /\ UNCHANGED created

CallRemoveVerifier(S, A) ==
  /\ created
  /\ \E caller \in S, address \in A :
       Deliver("RemoveVerifier", caller, address, 0,
               RemoveVerifier(State, caller, address))
  /\ UNCHANGED created

CallAddVerifiedClient(S, A, N) ==
  /\ created
  /\ \E caller \in S, address \in A, allowance \in N :
       Deliver("AddVerifiedClient", caller, address, allowance,
               AddVerifiedClient(State, caller, address, allowance))
  /\ UNCHANGED created

CallUseBytes(S, A, N) ==
  /\ created
  /\ \E caller \in S, address \in A, dealSize \in N :
       Deliver("UseBytes", caller, address, dealSize,
               UseBytes(State, caller, address, dealSize))
  /\ UNCHANGED created

CallRestoreBytes(S, A, N) ==
  /\ created
  /\ \E caller \in S, address \in A, dealSize \in N :
       Deliver("RestoreBytes", caller, address, dealSize,
               RestoreBytes(State, caller, address, dealSize))
  /\ UNCHANGED created

Next ==
  \/ CallConstructor
  \/ CallAddVerifier(Senders, Addrs, Amounts)
  \/ CallRemoveVerifier(Senders, Addrs)
  \/ CallAddVerifiedClient(Senders, Addrs, Amounts)
  \/ CallUseBytes(Senders, Addrs, Amounts)
  \/ CallRestoreBytes(Senders, Addrs, Amounts)

Spec == Init /\ [][Next]_vars

\* The same actor with three accounts that can hold entries.
NextWide ==
  \/ CallConstructor
  \/ CallAddVerifier(SendersWide, AddrsWide, AmountsWide)
  \/ CallRemoveVerifier(SendersWide, AddrsWide)
  \/ CallAddVerifiedClient(SendersWide, AddrsWide, AmountsWide)
  \/ CallUseBytes(SendersWide, AddrsWide, AmountsWide)
  \/ CallRestoreBytes(SendersWide, AddrsWide, AmountsWide)

SpecWide == Init /\ [][NextWide]_vars

\* The actor with the history of its calls recorded, for the properties
\* that span several calls: two accounts that can hold entries, named by id
\* or by robust address.
SendersHist == {StorageMarketActorAddr, "f0100", "f0101"}
AddrsHist == {"f0101", RobustKnown}

InitHist ==
  /\ InitActor
  /\ hist = NoHist(TRUE)
  /\ InitStore({})

NextHist ==
  \/ CallConstructor
  \/ CallAddVerifier(SendersHist, AddrsHist, Amounts)
  \/ CallRemoveVerifier(SendersHist, AddrsHist)
  \/ CallAddVerifiedClient(SendersHist, AddrsHist, Amounts)
  \/ CallUseBytes(SendersHist, AddrsHist, Amounts)
  \/ CallRestoreBytes(SendersHist, AddrsHist, Amounts)

SpecHist == InitHist /\ [][NextHist]_vars

\* Threads sharing one MetricsBlockStore.
InitMetrics ==
  /\ InitActor /\ hist = NoHist(FALSE)
  /\ InitStore(Threads)

NextMetrics ==
  \E t \in Threads :
    \/ MsGetLoadReads(t)
    \/ MsGetStoreReads(t)
    \/ MsGetUnderlying(t)
    \/ MsGetLoadBytes(t)
    \/ MsGetStoreBytes(t)
    \/ MsPutLoadWrites(t)
    \/ MsPutStoreWrites(t)
    \/ MsPutLoadBytes(t)
    \/ MsPutStoreBytes(t)
    \/ MsPutUnderlying(t)

SpecMetrics == InitMetrics /\ [][NextMetrics]_vars

\* One thread using a MetricsBlockStore.
InitMetricsSeq ==
  /\ InitActor /\ hist = NoHist(FALSE)
  /\ InitStore({1})

NextMetricsSeq ==
  \E t \in {1} :
    \/ MsGetLoadReads(t)
    \/ MsGetStoreReads(t)
    \/ MsGetUnderlying(t)
    \/ MsGetLoadBytes(t)
    \/ MsGetStoreBytes(t)
    \/ MsPutLoadWrites(t)
    \/ MsPutStoreWrites(t)
    \/ MsPutLoadBytes(t)
    \/ MsPutStoreBytes(t)
    \/ MsPutUnderlying(t)

SpecMetricsSeq == InitMetricsSeq /\ [][NextMetricsSeq]_vars

\* Threads sharing one SyncBlockStore.  A thread that can take a step of its
\* call takes it eventually (the scheduler runs every runnable goroutine and
\* the wrapped call returns); sync.Mutex hands the lock to a waiter that
\* keeps finding it free again and again.
NextSync ==
  \E t \in Threads :
    \/ SsCall(t)
    \/ SsLock(t)
    \/ SsUnderlying(t)
    \/ SsUnlock(t)

SpecSync ==
  /\ InitMetrics /\ [][NextSync]_vars
  /\ \A t \in Threads :
       /\ SF_vars(SsLock(t))
       /\ WF_vars(SsUnderlying(t))
       /\ WF_vars(SsUnlock(t))

\* ------------------------------------------------------------ properties

\* The id the latest message's address parameter resolves to.
LastId == ResolveAddress(last.address).id

Keys(m) == DOMAIN m

\* C1 (disjointness): after any sequence of calls, successful or aborting,
\* by any callers, no address is a key of both Verifiers and VerifiedClients.
C1_Disjoint == Keys(Verifiers) \cap Keys(VerifiedClients) = {}

\* C1 witness: both maps are populated and the root key's AddVerifier for an
\* existing verified client has just been refused.
C1_Witness ==
  /\ last.method = "AddVerifier" /\ last.caller = RootKey
  /\ last.code = ErrIllegalArgument
  /\ last.amount >= MinVerifiedDealSize
  /\ LastId \in Keys(VerifiedClients)
  /\ Keys(Verifiers) # {}

\* C2 (root isolation): in every state after construction RootKey is a key
\* of neither map; an AddVerifier, AddVerifiedClient or RestoreBytes whose
\* address resolves to RootKey never succeeds, and it exits with
\* ErrIllegalArgument whenever the caller passes the method's caller
\* validation (a caller that does not is refused by the runtime first).
C2_RootIsolation ==
  created =>
    /\ RootKey \notin Keys(Verifiers) \cup Keys(VerifiedClients)
    /\ (/\ last.method \in {"AddVerifier", "AddVerifiedClient", "RestoreBytes"}
        /\ LastId = RootKey)
       => /\ last.code \in {ErrIllegalArgument, SysErrForbidden}
          /\ (last.method = "AddVerifier" /\ last.caller = RootKey
                => last.code = ErrIllegalArgument)
          /\ (last.method = "RestoreBytes" /\ last.caller = StorageMarketActorAddr
                => last.code = ErrIllegalArgument)
          /\ (last.method = "AddVerifiedClient" => last.code = ErrIllegalArgument)

\* C2 witness: the storage market asked to restore bytes for the root key
\* with an acceptable deal size while both maps hold entries.
C2_Witness ==
  /\ created
  /\ last.method = "RestoreBytes" /\ last.caller = StorageMarketActorAddr
  /\ LastId = RootKey /\ last.amount >= MinVerifiedDealSize
  /\ last.code = ErrIllegalArgument
  /\ Keys(Verifiers) # {} /\ Keys(VerifiedClients) # {}

\* C3 (non-negativity and floor): in every committed state every verifier
\* cap is >= 0 and every verified-client cap is >= MinVerifiedDealSize.
C3_CapFloors ==
  /\ \A k \in Keys(Verifiers) : Verifiers[k] >= 0
  /\ \A k \in Keys(VerifiedClients) : VerifiedClients[k] >= MinVerifiedDealSize

\* C3 witness: a verifier spent its whole cap (residual 0) and UseBytes has
\* just removed the client whose residual fell below the floor.
C3_Witness ==
  /\ last.method = "UseBytes" /\ last.code = Ok
  /\ LastId \notin Keys(VerifiedClients)
  /\ \E k \in Keys(Verifiers) : Verifiers[k] = 0

\* The state the actor holds is the same before and after the step.
StateUnchanged ==
  /\ RootKey' = RootKey
  /\ Verifiers' = Verifiers
  /\ VerifiedClients' = VerifiedClients
  /\ created' = created

\* The id the address parameter of the message of this step resolves to,
\* and whether it resolves.
StepId == ResolveAddress(last'.address).id
StepResolves == ResolveAddress(last'.address).ok

\* Every entry of m other than k is the same in m2.
SameExcept(m, m2, k) ==
  /\ Keys(m2) \ {k} = Keys(m) \ {k}
  /\ \A x \in Keys(m) \ {k} : m2[x] = m[x]

\* C4 (conservation): every successful AddVerifiedClient({c, allowance}) by
\* caller u found c absent from VerifiedClients, leaves
\* Verifiers[u] + VerifiedClients[c] equal to the previous Verifiers[u] with
\* VerifiedClients[c] = allowance, and changes no other entry of either map.
C4_Conservation ==
  [][(last'.method = "AddVerifiedClient" /\ last'.code = Ok) =>
       LET u == last'.caller
           c == StepId IN
       /\ c \notin Keys(VerifiedClients)
       /\ u \in Keys(Verifiers) /\ u \in Keys(Verifiers')
       /\ c \in Keys(VerifiedClients')
       /\ VerifiedClients'[c] = last'.amount
       /\ Verifiers'[u] + VerifiedClients'[c] = Verifiers[u]
       /\ SameExcept(Verifiers, Verifiers', u)
       /\ SameExcept(VerifiedClients, VerifiedClients', c)
       /\ RootKey' = RootKey]_vars

\* C4 witness: a verifier has just funded a client from part of its cap
\* while a third account holds an entry of its own.
C4_Witness ==
  /\ last.method = "AddVerifiedClient" /\ last.code = Ok
  /\ VerifiedClients[LastId] = last.amount
  /\ Verifiers[last.caller] > 0
  /\ (Keys(Verifiers) \cup Keys(VerifiedClients)) \ {last.caller, LastId} # {}

\* C5 (atomicity): every aborting call leaves RootKey, Verifiers and
\* VerifiedClients as they were; in particular an AddVerifiedClient by a
\* verifier with enough cap, naming a client that already exists, aborts
\* with ErrIllegalArgument and does not debit the verifier.
C5_AbortAtomic ==
  [][/\ last'.code # Ok => StateUnchanged
     /\ (/\ last'.method = "AddVerifiedClient"
         /\ last'.amount >= MinVerifiedDealSize
         /\ StepResolves /\ StepId \in Keys(VerifiedClients)
         /\ last'.caller \in Keys(Verifiers))
        => /\ last'.code = ErrIllegalArgument
           /\ Verifiers' = Verifiers]_vars

\* C5 witness: the duplicate-client abort, reached after the verifiers map
\* handle was debited (the caller is a verifier whose cap covers the
\* allowance).
C5_Witness ==
  /\ last.method = "AddVerifiedClient" /\ last.code = ErrIllegalArgument
  /\ last.amount >= MinVerifiedDealSize
  /\ LastId \in Keys(VerifiedClients)
  /\ last.caller \in Keys(Verifiers)
  /\ Verifiers[last.caller] >= last.amount

\* C6 (caller authorization): AddVerifier and RemoveVerifier change the
\* state only when called by RootKey, UseBytes and RestoreBytes only when
\* called by the storage market actor; the key set of Verifiers changes only
\* in an AddVerifier or RemoveVerifier step whose caller is RootKey.
C6_CallerAuth ==
  [][/\ (last'.method \in {"AddVerifier", "RemoveVerifier"}
         /\ last'.caller # RootKey) => (StateUnchanged /\ last'.code # Ok)
     /\ (last'.method \in {"UseBytes", "RestoreBytes"}
         /\ last'.caller # StorageMarketActorAddr)
          => (StateUnchanged /\ last'.code # Ok)
     /\ Keys(Verifiers') # Keys(Verifiers)
          => /\ last'.method \in {"AddVerifier", "RemoveVerifier"}
             /\ last'.caller = RootKey]_vars

\* C6 witness: an account other than the root key asked to remove an
\* existing verifier and was refused.
C6_Witness ==
  /\ last.method = "RemoveVerifier" /\ last.caller # RootKey
  /\ LastId \in Keys(Verifiers)
  /\ last.code = SysErrForbidden

\* C7 (data-driven authorization): an AddVerifiedClient with an allowance of
\* at least the minimum and an address resolving to an id other than RootKey,
\* sent by a caller that is not a key of Verifiers, exits ErrNotFound
\* (whatever the later checks would say) and changes nothing; a client entry
\* is created by AddVerifiedClient only for a caller that is a verifier.
C7_VerifierLookup ==
  [][last'.method = "AddVerifiedClient" =>
       /\ (/\ last'.amount >= MinVerifiedDealSize
           /\ StepResolves /\ StepId # RootKey
           /\ last'.caller \notin Keys(Verifiers))
          => (last'.code = ErrNotFound /\ StateUnchanged)
       /\ Keys(VerifiedClients') # Keys(VerifiedClients)
          => last'.caller \in Keys(Verifiers)]_vars

\* C7 witness: a caller that is no verifier named an existing verifier as
\* the client (the role check would fail too) and got ErrNotFound.
C7_Witness ==
  /\ last.method = "AddVerifiedClient" /\ last.code = ErrNotFound
  /\ last.caller \notin Keys(Verifiers)
  /\ LastId \in Keys(Verifiers)

C9_DealSizeFirst ==
  (/\ last.method = "UseBytes"
   /\ last.caller = StorageMarketActorAddr
   /\ last.amount < MinVerifiedDealSize)
  => last.code = ErrIllegalArgument

\* C10 (RestoreBytes effect): a successful RestoreBytes({c, dealSize}) sets
\* VerifiedClients[c] to the previous cap of c, or 0 when c was absent, plus
\* dealSize, and changes nothing else; a RestoreBytes by the storage market
\* naming a key of Verifiers exits ErrIllegalArgument.
C10_RestoreBytesEffect ==
  [][last'.method = "RestoreBytes" =>
       LET c == StepId
           current == IF c \in Keys(VerifiedClients)
                      THEN VerifiedClients[c] ELSE 0 IN
       /\ last'.code = Ok
          => /\ c \in Keys(VerifiedClients')
             /\ VerifiedClients'[c] = current + last'.amount
             /\ SameExcept(VerifiedClients, VerifiedClients', c)
             /\ Verifiers' = Verifiers /\ RootKey' = RootKey
       /\ (/\ last'.caller = StorageMarketActorAddr
           /\ StepResolves /\ c \in Keys(Verifiers))
          => (last'.code = ErrIllegalArgument /\ StateUnchanged)]_vars

\* C10 witness: RestoreBytes has added a deal size to a cap the client
\* still held.
C10_Witness ==
  /\ last.method = "RestoreBytes" /\ last.code = Ok
  /\ VerifiedClients[LastId] > last.amount
  /\ Keys(Verifiers) # {}

\* C11 (frames): UseBytes and RestoreBytes leave Verifiers and RootKey
\* unchanged, AddVerifier and RemoveVerifier leave VerifiedClients and RootKey
\* unchanged, and once constructed RootKey never changes.
C11_Frames ==
  [][/\ last'.method \in {"UseBytes", "RestoreBytes"}
          => (Verifiers' = Verifiers /\ RootKey' = RootKey)
     /\ last'.method \in {"AddVerifier", "RemoveVerifier"}
          => (VerifiedClients' = VerifiedClients /\ RootKey' = RootKey)
     /\ created => (created' /\ RootKey' = RootKey)]_vars

\* C11 witness: RestoreBytes has credited a client while a verifier that
\* spent its whole cap still holds 0.
C11_Witness ==
  /\ last.method = "RestoreBytes" /\ last.code = Ok
  /\ LastId \in Keys(VerifiedClients)
  /\ \E v \in Keys(Verifiers) : Verifiers[v] = 0

\* C12 (AddVerifier replaces): a successful AddVerifier({v, allowance}) leaves
\* Verifiers[v] = allowance, whatever cap v held before, and changes no other
\* verifier entry.
C12_AddVerifierReplaces ==
  [][(last'.method = "AddVerifier" /\ last'.code = Ok) =>
       /\ StepId \in Keys(Verifiers')
       /\ Verifiers'[StepId] = last'.amount
       /\ SameExcept(Verifiers, Verifiers', StepId)]_vars

\* C12 witness: AddVerifier has replaced a different cap of a verifier that
\* had spent part of its previous grant, while another verifier exists.
C12_Witness ==
  /\ hist.on
  /\ last.method = "AddVerifier" /\ last.code = Ok
  /\ hist.capBefore # NoCap /\ hist.capBefore # last.amount
  /\ Verifiers[LastId] = last.amount
  /\ Keys(VerifiedClients) # {}

\* C13 (RemoveVerifier): a RemoveVerifier(v) by RootKey with a resolvable
\* address deletes exactly the entry Verifiers[v] when v is present, and exits
\* ErrIllegalState leaving the state unchanged when v is absent.
C13_RemoveVerifier ==
  [][(/\ last'.method = "RemoveVerifier" /\ last'.caller = RootKey
      /\ StepResolves) =>
       IF StepId \in Keys(Verifiers)
       THEN /\ last'.code = Ok
            /\ StepId \notin Keys(Verifiers')
            /\ SameExcept(Verifiers, Verifiers', StepId)
            /\ VerifiedClients' = VerifiedClients /\ RootKey' = RootKey
       ELSE last'.code = ErrIllegalState /\ StateUnchanged]_vars

\* C13 witness: the root key asked to remove an account that is no verifier
\* (it is a client) while another verifier exists.
C13_Witness ==
  /\ last.method = "RemoveVerifier" /\ last.caller = RootKey
  /\ last.code = ErrIllegalState
  /\ LastId \in Keys(VerifiedClients)
  /\ Keys(Verifiers) # {}

\* A verifier entry disappears only in a RemoveVerifier step, and a
\* successful AddVerifiedClient keeps its caller's entry.
VerifierRetained ==
  /\ Keys(Verifiers) \ Keys(Verifiers') # {} => last'.method = "RemoveVerifier"
  /\ (last'.method = "AddVerifiedClient" /\ last'.code = Ok)
       => last'.caller \in Keys(Verifiers')

\* The step is an AddVerifiedClient sent by a verifier whose cap is below
\* the minimum.
SpentVerifierCalls ==
  /\ last'.method = "AddVerifiedClient"
  /\ last'.caller \in Keys(Verifiers)
  /\ Verifiers[last'.caller] < MinVerifiedDealSize

\* C14 as stated: a verifier entry is removed only by RemoveVerifier, and
\* every AddVerifiedClient of a verifier whose cap is below
\* MinVerifiedDealSize exits ErrIllegalArgument and creates no client.
C14_AsStated ==
  [][/\ VerifierRetained
     /\ SpentVerifierCalls
          => (last'.code = ErrIllegalArgument /\ StateUnchanged)]_vars

\* C14 amended: a verifier entry is removed only by RemoveVerifier, and
\* every AddVerifiedClient of a verifier whose cap is below
\* MinVerifiedDealSize aborts and creates no client; its exit code is
\* ErrIllegalArgument, except ErrIllegalState when the allowance is at least
\* the minimum and the address cannot be resolved.
C14_SpentVerifier ==
  [][/\ VerifierRetained
     /\ SpentVerifierCalls
          => /\ StateUnchanged
             /\ last'.code =
                  IF last'.amount >= MinVerifiedDealSize /\ ~StepResolves
                  THEN ErrIllegalState ELSE ErrIllegalArgument]_vars

\* C14 witness: a verifier whose residual cap is 0 still holds its entry and
\* its AddVerifiedClient for a fresh account has been refused.
C14_Witness ==
  /\ last.method = "AddVerifiedClient" /\ last.code = ErrIllegalArgument
  /\ last.amount >= MinVerifiedDealSize
  /\ last.caller \in Keys(Verifiers) /\ Verifiers[last.caller] = 0
  /\ ResolveAddress(last.address).ok
  /\ LastId \notin Keys(Verifiers) \cup Keys(VerifiedClients) \cup {RootKey}

\* C18 (use then restore): when a successful UseBytes({c, dealSize}) on a
\* client holding cap is immediately followed by RestoreBytes({c, dealSize})
\* from the storage market, the restore succeeds and leaves c with cap when
\* cap - dealSize >= MinVerifiedDealSize and with dealSize otherwise: the
\* client loses at most MinVerifiedDealSize - 1 and never gains.
C18_UseThenRestore ==
  [][(/\ hist.on
      /\ last.method = "UseBytes" /\ last.code = Ok
      /\ last'.method = "RestoreBytes"
      /\ last'.caller = StorageMarketActorAddr
      /\ StepResolves /\ StepId = LastId
      /\ last'.amount = last.amount) =>
       LET c == StepId
           d == last.amount
           cap == hist.origCap IN
       /\ cap >= d /\ d >= MinVerifiedDealSize
       /\ last'.code = Ok
       /\ c \in Keys(VerifiedClients')
       /\ VerifiedClients'[c] =
            IF cap - d >= MinVerifiedDealSize THEN cap ELSE d
       /\ cap - VerifiedClients'[c] \in 0 .. (MinVerifiedDealSize - 1)]_vars

\* C18 witness: the round trip has ended with the client holding the deal
\* size, less than the cap it started with.
C18_Witness ==
  /\ hist.on
  /\ last.method = "RestoreBytes" /\ last.code = Ok
  /\ hist.origCap # NoCap
  /\ VerifiedClients[LastId] = last.amount
  /\ hist.origCap > last.amount

\* The step is a RestoreBytes from the storage market, with a deal size of
\* at least the minimum, for a client UseBytes deleted earlier in the run.
RestoresDeleted ==
  /\ hist.on
  /\ last'.method = "RestoreBytes"
  /\ last'.caller = StorageMarketActorAddr
  /\ last'.amount >= MinVerifiedDealSize
  /\ StepResolves /\ StepId \in hist.deleted

\* C19 as stated: in every state reached after UseBytes deleted client c,
\* whatever calls came in between, a RestoreBytes({c, dealSize}) from the
\* storage market with dealSize >= MinVerifiedDealSize succeeds and leaves c
\* in VerifiedClients.
C19_AsStated ==
  [][RestoresDeleted
       => (last'.code = Ok /\ StepId \in Keys(VerifiedClients'))]_vars

\* C19 amended: such a RestoreBytes succeeds and leaves c in VerifiedClients
\* with its previous cap (0 when absent) plus dealSize unless c has been made
\* a verifier in between; then it exits ErrIllegalArgument and changes nothing.
C19_RestoreAfterDelete ==
  [][RestoresDeleted =>
       IF StepId \in Keys(Verifiers)
       THEN last'.code = ErrIllegalArgument /\ StateUnchanged
       ELSE /\ last'.code = Ok
            /\ StepId \in Keys(VerifiedClients')
            /\ VerifiedClients'[StepId] =
                 last'.amount + (IF StepId \in Keys(VerifiedClients)
                                 THEN VerifiedClients[StepId] ELSE 0)]_vars

\* C19 witness: a client UseBytes deleted earlier has been re-created by
\* RestoreBytes with exactly the deal size, after the root key had appointed
\* a verifier.
C19_Witness ==
  /\ hist.on
  /\ last.method = "RestoreBytes" /\ last.code = Ok
  /\ LastId \in hist.deleted
  /\ VerifiedClients[LastId] = last.amount
  /\ Keys(Verifiers) # {}

\* C20 (budget): for every verifier u, the allowances of the clients it has
\* created since its latest successful AddVerifier({u, A}) plus its current
\* cap add up to A, so it never allocates more than A; and a verifier's cap
\* never grows in a step other than a successful AddVerifier for it.
C20_Budget ==
  [][hist.on =>
       /\ \A u \in Keys(Verifiers') :
            /\ u \in Keys(hist'.grant) /\ u \in Keys(hist'.spent)
            /\ hist'.spent[u] + Verifiers'[u] = hist'.grant[u]
            /\ hist'.spent[u] <= hist'.grant[u]
       /\ \A u \in Keys(Verifiers) \cap Keys(Verifiers') :
            Verifiers'[u] > Verifiers[u]
              => /\ last'.method = "AddVerifier" /\ last'.code = Ok
                 /\ StepId = u]_vars

\* C20 witness: a verifier has funded its second client since its latest
\* grant and has spent the grant completely.
C20_Witness ==
  /\ hist.on
  /\ last.method = "AddVerifiedClient" /\ last.code = Ok
  /\ hist.spent[last.caller] > last.amount
  /\ hist.spent[last.caller] = hist.grant[last.caller]
  /\ Verifiers[last.caller] = 0


\* ------------------------------------------------------------ block stores

\* Every call made on the store has returned.
Quiescent == \A t \in DOMAIN thr : thr[t].pc = "idle"

\* The counters equal what the returned calls account for: one read per Get,
\* the bytes of the successful Gets, one write and the block's bytes per Put.
CountersExact ==
  /\ ms.Reads = acct.gets
  /\ ms.ReadBytes = acct.readBytes
  /\ ms.Writes = acct.puts
  /\ ms.WriteBytes = acct.writeBytes

\* C15: with several threads calling Get and Put on one MetricsBlockStore,
\* once n Gets and m Puts have returned, ReadCount = n, WriteCount = m and
\* the byte counters are the sums of the block sizes (no update is lost).
\* The counters are plain fields updated without a lock, so this is violated.
C15_CountersExact == Quiescent => CountersExact

\* Pcs at which a thread is in, or back from, the wrapped store's call.
InSection == {"sync_get_bs", "sync_put_bs", "sync_get_unlock", "sync_put_unlock"}

\* C16: on one SyncBlockStore shared by the threads, at most one thread at a
\* time is in the wrapped store's Get or Put (and it holds the mutex), a
\* thread that has returned, with or without an error, does not hold the
\* mutex, and every call that was entered eventually returns.
C16_SyncBlockStore ==
  /\ [](/\ Cardinality({t \in Threads : thr[t].pc \in InSection}) <= 1
        /\ \A t \in Threads : thr[t].pc \in InSection => mu = t
        /\ \A t \in Threads : thr[t].pc = "idle" => mu # t)
  /\ \A t \in Threads : (thr[t].pc # "idle") ~> (thr[t].pc = "idle")

\* A call that failed has returned, another thread holds the mutex with a
\* failed wrapped call behind it, and a third call is waiting in Lock.
C16_Witness ==
  \E t1 \in DOMAIN thr, t2 \in DOMAIN thr :
    /\ t1 # t2
    /\ thr[t1].pc \in {"sync_get_unlock", "sync_put_unlock"} /\ thr[t1].err
    /\ thr[t2].pc \in {"sync_get", "sync_put"}
    /\ acct.getErrs + acct.putErrs >= 1

\* C17: one thread using a MetricsBlockStore: whenever its call has returned
\* the counters are exact (Reads counts every Get, failed ones too;
\* ReadBytes the bytes of the successful Gets only; Writes and WriteBytes
\* every Put and its bytes, whether the wrapped Put failed or not), and no
\* step ever decreases a counter.
C17_Sequential ==
  [][ /\ ms'.Reads >= ms.Reads /\ ms'.ReadBytes >= ms.ReadBytes
      /\ ms'.Writes >= ms.Writes /\ ms'.WriteBytes >= ms.WriteBytes
      /\ (\A t \in DOMAIN thr' : thr'[t].pc = "idle") => CountersExact' ]_vars

\* A Get has failed, a Get has succeeded, a Put has failed, and all calls
\* have returned.
C17_Witness ==
  /\ DOMAIN thr = {1} /\ Quiescent
  /\ acct.getErrs >= 1 /\ acct.gets > acct.getErrs /\ acct.putErrs >= 1
  /\ ms.Reads = acct.gets /\ ms.ReadBytes > 0 /\ ms.WriteBytes > ms.ReadBytes

====
